---- MODULE Spec2Model ----
(***************************************************************************)
(* Model of the robudst driver-station client: the status derivation       *)
(* (utils.rs), the incoming and outgoing UDP codecs (proto/incoming/udp.rs, *)
(* proto/outgoing/udp.rs), the incoming TCP codec (proto/incoming/tcp.rs)   *)
(* and the Ds session (lib.rs).                                             *)
(*                                                                         *)
(* Bytes are naturals 0..255.  A call that panics (a failed assert!, an     *)
(* unwrap() of None, an index out of bounds) returns Panic; a call that     *)
(* returns v returns Ok(v).  An f32 read from the wire is kept as its       *)
(* big-endian bit pattern; battery is kept as the numerator of n / 256.0.   *)
(***************************************************************************)
EXTENDS Integers, Sequences, FiniteSets, TLC

VARIABLES
    ds,       \* the Ds session: its five AtomicCell fields
    locks,    \* the tokio Mutex of each socket half: the task holding it, or Free
    pc,       \* position of each task in the method it is running
    cmd,      \* the Ds method each command task is running
    pkt,      \* each task's local UdpOutgoingPacket under construction
    net,      \* what the last iteration of the receive loop found on its socket
              \* (a datagram or TCP bytes) and the events it reported; the last
              \* status packet the loop parsed
    stream,   \* an UdpIncomingStream or a TcpTagStream: buf, pos, records
              \* yielded, last result
    call      \* the last call of a function under test, or of a getter of the
              \* session, and what it returned

vars == <<ds, locks, pc, cmd, pkt, net, stream, call>>

\* ------------------------------------------------------------------ helpers

Panic == [panic |-> TRUE]
Ok(v) == [panic |-> FALSE, val |-> v]

Byte == 0..255

RECURSIVE BitAnd(_, _)
BitAnd(a, b) ==
    IF a = 0 \/ b = 0 THEN 0
    ELSE (a % 2) * (b % 2) + 2 * BitAnd(a \div 2, b \div 2)

BitOr(a, b) == a + b - BitAnd(a, b)

\* bitflags' contains: every bit of flag is set in bits
contains(bits, flag) == BitAnd(bits, flag) = flag

\* bitflags' from_bits: None when a bit outside the declared flags is set
from_bits(all, bits) == IF BitAnd(bits, all) = bits THEN Ok(bits) ELSE Panic

saturating_sub(a, b) == IF a >= b THEN a - b ELSE 0

u16_from_be_bytes(b0, b1) == b0 * 256 + b1

u32_from_be_bytes(b0, b1, b2, b3) ==
    ((b0 * 256 + b1) * 256 + b2) * 256 + b3

\* ------------------------------------------------- proto/incoming/udp.rs flags

Status_ESTOP == 128
Status_BROWNOUT == 16
Status_CODE_START == 8
Status_ENABLED == 4
Status_TELEOP == 0
Status_TEST == 1
Status_AUTO == 2

Status_all ==
    BitOr(Status_ESTOP, BitOr(Status_BROWNOUT, BitOr(Status_CODE_START,
    BitOr(Status_ENABLED, BitOr(Status_TELEOP, BitOr(Status_TEST, Status_AUTO))))))

Trace_ROBOT_CODE == 32
Trace_all == 63

is_enabled(status) == contains(status, Status_ENABLED)
is_browned_out(status) == contains(status, Status_BROWNOUT)
is_estopped(status) == contains(status, Status_ESTOP)
is_in_teleop(status) == contains(status, Status_TELEOP)
is_in_auto(status) == contains(status, Status_AUTO)
is_in_test(status) == contains(status, Status_TEST)
has_robot_code(trace) == contains(trace, Trace_ROBOT_CODE)

\* ------------------------------------------------------------------ lib.rs types

RobotStatus ==
    {"NoCommunication", "NoRobotCode", "EStopped", "BrownedOut", "Disabled", "Enabled"}

RobotCodeMode == {"Autonomous", "Teleop", "Test"}

\* ------------------------------------------------------------------ utils.rs

\* Rust's ^ on bool
Xor(a, b) == a # b

\* The same derivation with the brownout test ahead of the e-stop test.
find_status_brownout_first(status, trace) ==
    IF ~ Xor(Xor(is_in_teleop(status), is_in_auto(status)), is_in_test(status))
    THEN Panic
    ELSE LET mode == IF is_in_teleop(status) THEN "Teleop"
                     ELSE IF is_in_auto(status) THEN "Autonomous"
                     ELSE "Test"
         IN  IF ~ has_robot_code(trace) THEN Ok([status |-> "NoRobotCode", mode |-> mode])
             ELSE IF is_browned_out(status) THEN Ok([status |-> "BrownedOut", mode |-> mode])
             ELSE IF is_estopped(status) THEN Ok([status |-> "EStopped", mode |-> mode])
             ELSE IF is_enabled(status) THEN Ok([status |-> "Enabled", mode |-> mode])
             ELSE Ok([status |-> "Disabled", mode |-> mode])

find_status(status, trace) ==
    IF ~ Xor(Xor(is_in_teleop(status), is_in_auto(status)), is_in_test(status))
    THEN Panic
    ELSE LET mode == IF is_in_teleop(status) THEN Ok("Teleop")
                     ELSE IF is_in_auto(status) THEN Ok("Autonomous")
                     ELSE IF is_in_test(status) THEN Ok("Test")
                     ELSE Panic
         IN  IF mode.panic THEN Panic
             ELSE IF ~ has_robot_code(trace)
                  THEN Ok([status |-> "NoRobotCode", mode |-> mode.val])
             ELSE IF is_estopped(status)
                  THEN Ok([status |-> "EStopped", mode |-> mode.val])
             ELSE IF is_browned_out(status)
                  THEN Ok([status |-> "BrownedOut", mode |-> mode.val])
             ELSE IF is_enabled(status)
                  THEN Ok([status |-> "Enabled", mode |-> mode.val])
             ELSE Ok([status |-> "Disabled", mode |-> mode.val])

\* ------------------------------------------------------------------ lib.rs

\* AlliancePos::Red(pos) / AlliancePos::Blue(pos)
AlliancePos(color, pos) == [color |-> color, pos |-> pos]

\* A to_pos that keeps the station number as it is.
to_pos_one_based(alliance) ==
    IF ~ (alliance.pos # 0 /\ alliance.pos <= 3) THEN Panic
    ELSE Ok(alliance.pos)

to_pos(alliance) ==
    IF ~ (alliance.pos # 0 /\ alliance.pos <= 3) THEN Panic
    ELSE IF alliance.color = "Red" THEN Ok(saturating_sub(alliance.pos, 1))
    ELSE Ok(saturating_sub(alliance.pos, 4))

\* Ds::init: the value of every AtomicCell after construction
Ds_init ==
    [status |-> "NoCommunication", mode |-> "Teleop", can_bus_util |-> 0,
     battery |-> 0, alliance_pos |-> AlliancePos("Red", 1)]

\* ------------------------------------------------- proto/outgoing/udp.rs

Control_ESTOP == 128
Control_FMS_CONNECTED == 8
Control_ENABLED == 4
Control_TELEOP == 0
Control_AUTO == 2
Control_TEST == 1

Request_REBOOT_RIO == 8
Request_RESTART_CODE == 4

\* build's first match: the lifecycle state's control flags
control_of_status(control, status) ==
    IF status = "EStopped" THEN BitOr(control, Control_ESTOP)
    ELSE IF status = "Enabled" THEN BitOr(control, Control_ENABLED)
    ELSE control

\* The mode match with the AUTO and TEST flags exchanged.
control_of_mode_swapped(control, mode) ==
    IF mode = "Teleop" THEN BitOr(control, Control_TELEOP)
    ELSE IF mode = "Autonomous" THEN BitOr(control, Control_TEST)
    ELSE BitOr(control, Control_AUTO)

\* build's second match: the operating mode's control flags
control_of_mode(control, mode) ==
    IF mode = "Teleop" THEN BitOr(control, Control_TELEOP)
    ELSE IF mode = "Autonomous" THEN BitOr(control, Control_AUTO)
    ELSE BitOr(control, Control_TEST)

\* A build that numbers its packets from 1.
build_numbered(status, mode, alliance) ==
    [seqnum |-> 1, comm_version |-> 1,
     control |-> BitOr(BitOr(0, IF status = "Enabled" THEN 4
                                ELSE IF status = "EStopped" THEN 128 ELSE 0),
                       IF mode = "Teleop" THEN 0
                       ELSE IF mode = "Autonomous" THEN 2 ELSE 1),
     req |-> 0, alliance |-> alliance, tags |-> <<>>]

\* UdpOutgoingPacket::build(ds), from the three values it loads
build(status, mode, alliance) ==
    [seqnum |-> 0, comm_version |-> 1,
     control |-> control_of_mode(control_of_status(0, status), mode),
     req |-> 0, alliance |-> alliance, tags |-> <<>>]

reboot_rio(p) == [p EXCEPT !.req = Request_REBOOT_RIO]

\* A restart_code that adds its flag to the request flags (req |= ..) and
\* asks for the reboot as well.
restart_code_with_reboot(p) == [p EXCEPT !.req = 12]

restart_code(p) == [p EXCEPT !.req = Request_RESTART_CODE]


\* x as u8
as_u8(x) == x % 256

\* i16::to_be_bytes
i16_to_be_bytes(v) == LET u == v % 65536 IN <<u \div 256, u % 256>>

\* one pass of the loop over a chunk of 8 buttons, from button i on:
\* byte |= button as u8; byte <<= 1 (on a u8)
RECURSIVE pack_chunk(_, _, _)
pack_chunk(chunk, i, byte) ==
    IF i > Len(chunk) THEN byte
    ELSE pack_chunk(chunk, i + 1,
                    as_u8(BitOr(byte, IF chunk[i] THEN 1 ELSE 0) * 2))

\* buttons.array_chunks::<8>(): the complete chunks of 8, in order; what is
\* left at the end is in no chunk
RECURSIVE array_chunks_8(_)
array_chunks_8(buttons) ==
    IF Len(buttons) < 8 THEN <<>>
    ELSE <<SubSeq(buttons, 1, 8)>> \o array_chunks_8(SubSeq(buttons, 9, Len(buttons)))

RECURSIVE flatten(_)
flatten(seqs) == IF seqs = <<>> THEN <<>> ELSE Head(seqs) \o flatten(Tail(seqs))

\* UdpOutgoingTag::write.  A countdown is kept as the bit pattern of its f32,
\* a timezone as the bytes of its str.
UdpOutgoingTag_write(tag) ==
    IF tag.kind = "Countdown" THEN
        <<tag.countdown \div 16777216, (tag.countdown \div 65536) % 256,
          (tag.countdown \div 256) % 256, tag.countdown % 256>>
    ELSE IF tag.kind = "Joystick" THEN
        LET chunks == array_chunks_8(tag.buttons)
        IN  <<as_u8(Len(tag.axes))>>
            \o [i \in 1..Len(tag.axes) |-> as_u8(tag.axes[i])]
            \o <<as_u8(Len(tag.buttons) \div 8) + (IF Len(tag.buttons) = 0 THEN 0 ELSE 1)>>
            \o [j \in 1..Len(chunks) |-> pack_chunk(chunks[j], 1, 0)]
            \o <<as_u8(Len(tag.povs))>>
            \o flatten([i \in 1..Len(tag.povs) |-> i16_to_be_bytes(tag.povs[i])])
    ELSE IF tag.kind = "Date" THEN <<>>
    ELSE tag.timezone

\* the id byte UdpOutgoingPacket::write puts before each kind of tag
outgoing_tag_id(tag) ==
    IF tag.kind = "Countdown" THEN 7
    ELSE IF tag.kind = "Joystick" THEN 12
    ELSE IF tag.kind = "Date" THEN 15
    ELSE 16

\* UdpOutgoingPacket::write: the six header bytes, then for each tag its
\* length byte, its id and its bytes
write(p) ==
    LET a == to_pos(p.alliance)
    IN  IF a.panic THEN Panic
        ELSE Ok(<<p.seqnum \div 256, p.seqnum % 256, p.comm_version,
                  p.control, p.req, a.val>>
                \o flatten([i \in 1..Len(p.tags) |->
                               LET tag == UdpOutgoingTag_write(p.tags[i])
                               IN  <<as_u8(Len(tag)), outgoing_tag_id(p.tags[i])>> \o tag]))

\* ------------------------------------------------- proto/incoming/udp.rs

\* buf[i] of a Rust slice (0-based); InBounds is the check whose failure panics
at(b, i) == b[i + 1]
InBounds(b, i) == i < Len(b)

\* &buf[from..to]
slice(b, from, to) == SubSeq(b, from + 1, to)

UdpIncomingPacket(seqnum, status, trace, battery, need_date) ==
    [seqnum |-> seqnum, status |-> status, trace |-> trace,
     battery |-> battery, need_date |-> need_date]

JoystickOutput_parse(b) ==
    [outputs |-> u32_from_be_bytes(at(b, 3), at(b, 2), at(b, 1), at(b, 0)),
     left_rumble |-> u16_from_be_bytes(at(b, 4), at(b, 5)),
     right_rumble |-> u16_from_be_bytes(at(b, 6), at(b, 7))]

CanMetrics_parse(b) ==
    [utilization |-> u32_from_be_bytes(at(b, 0), at(b, 1), at(b, 2), at(b, 3)),
     bus_off |-> u32_from_be_bytes(at(b, 4), at(b, 5), at(b, 6), at(b, 7)),
     tx_full |-> u32_from_be_bytes(at(b, 8), at(b, 9), at(b, 10), at(b, 11)),
     rx_errors |-> at(b, 12), tx_errors |-> at(b, 13)]

\* One arm of next's match on tag_id, given the tag's slice: Panic when an
\* assert_eq! fails or an index is out of bounds, else Ok.  What the parse
\* functions return is dropped by next, and no handler is called.
tag_arm(tag_id, tag_size, b) ==
    IF tag_id = 1 THEN
        IF tag_size = 1 THEN Ok("continue")
        ELSE IF tag_size # 9 THEN Panic
        ELSE Ok(JoystickOutput_parse(b))
    ELSE IF tag_id = 4 THEN
        IF ~ InBounds(b, 3) THEN Panic
        ELSE Ok(u32_from_be_bytes(at(b, 0), at(b, 1), at(b, 2), at(b, 3)))
    ELSE IF tag_id = 5 THEN (IF tag_size # 21 THEN Panic ELSE Ok("CpuInfo"))
    ELSE IF tag_id = 6 THEN (IF tag_size # 9 THEN Panic ELSE Ok("RamInfo"))
    ELSE IF tag_id = 8 THEN (IF tag_size # 26 THEN Panic ELSE Ok("PdpLog"))
    ELSE IF tag_id = 9 THEN (IF tag_size # 10 THEN Panic ELSE Ok("Unknown"))
    ELSE IF tag_id = 14 THEN
        IF tag_size # 15 THEN Panic ELSE Ok(CanMetrics_parse(b))
    ELSE Ok("skip")

\* next's while loop over the tag blocks.  buf is the slice taken at the
\* cursor on entry to next, len the length of the whole buffer, pos the
\* cursor.  Returns what next does at the end of the loop and the cursor.
RECURSIVE tag_loop(_, _, _)
tag_loop(buf, len, pos) ==
    IF ~ (pos < len) THEN [ret |-> "Some", pos |-> pos]
    ELSE IF ~ InBounds(buf, pos) \/ ~ InBounds(buf, pos + 1)
         THEN [ret |-> "panic", pos |-> pos]
    ELSE LET tag_size == at(buf, pos)
             tag_id == at(buf, pos + 1)
             p == pos + 2
         IN  IF (p + tag_size) < len THEN [ret |-> "None", pos |-> p]
             ELSE IF p + tag_size > Len(buf) THEN [ret |-> "panic", pos |-> p]
             ELSE IF tag_arm(tag_id, tag_size, slice(buf, p, p + tag_size)).panic
                  THEN [ret |-> "panic", pos |-> p + tag_size]
             ELSE tag_loop(buf, len, p + tag_size)

\* UdpIncomingStream::next on a stream [buf, pos]:
\* [ret: "Some" | "None" | "panic", pos: the cursor afterwards, item: the packet]
UdpIncomingStream_next(s) ==
    LET len == Len(s.buf)
        none == UdpIncomingPacket(0, 0, 0, 0, FALSE)
    IN  IF len - s.pos <= 8 THEN [ret |-> "None", pos |-> s.pos, item |-> none]
        ELSE LET buf == slice(s.buf, s.pos, len)
                 status == from_bits(Status_all, at(buf, 3))
                 trace == from_bits(Trace_all, at(buf, 4))
             IN  IF status.panic \/ trace.panic
                 THEN [ret |-> "panic", pos |-> s.pos, item |-> none]
                 ELSE LET r == tag_loop(buf, len, s.pos + 8)
                      IN  [ret |-> r.ret, pos |-> r.pos,
                           item |-> UdpIncomingPacket(
                               u16_from_be_bytes(at(buf, 0), at(buf, 1)),
                               status.val, trace.val,
                               at(buf, 5) + at(buf, 6),
                               at(buf, 7) = 1)]

\* UdpIncomingStream::new
UdpIncomingStream_new(buf) ==
    [buf |-> buf, pos |-> 0, yielded |-> <<>>, last |-> "new"]

\* ------------------------------------------------- proto/incoming/tcp.rs

\* &buf[from..]
slice_from(b, from) == SubSeq(b, from + 1, Len(b))

\* byte i of a sequence continues a multi-byte UTF-8 character
Utf8Cont(b, i) == InBounds(b, i) /\ at(b, i) \in 128..191

\* the bytes of b from index i on are well-formed UTF-8: no overlong form, no
\* surrogate, nothing above U+10FFFF
RECURSIVE Utf8Valid(_, _)
Utf8Valid(b, i) ==
    IF ~ InBounds(b, i) THEN TRUE
    ELSE LET c == at(b, i)
         IN  IF c < 128 THEN Utf8Valid(b, i + 1)
             ELSE IF c \in 194..223
                  THEN Utf8Cont(b, i + 1) /\ Utf8Valid(b, i + 2)
             ELSE IF c \in 224..239
                  THEN /\ Utf8Cont(b, i + 1)
                       /\ (c = 224 => at(b, i + 1) >= 160)
                       /\ (c = 237 => at(b, i + 1) <= 159)
                       /\ Utf8Cont(b, i + 2)
                       /\ Utf8Valid(b, i + 3)
             ELSE IF c \in 240..244
                  THEN /\ Utf8Cont(b, i + 1)
                       /\ (c = 240 => at(b, i + 1) >= 144)
                       /\ (c = 244 => at(b, i + 1) <= 143)
                       /\ Utf8Cont(b, i + 2)
                       /\ Utf8Cont(b, i + 3)
                       /\ Utf8Valid(b, i + 4)
             ELSE FALSE

\* core::str::from_utf8: Ok(the str, kept as its bytes) or an Err, kept as a
\* record with panic set: unwrap() turns it into a panic, if let Ok into ""
from_utf8(b) == IF Utf8Valid(b, 0) THEN Ok(b) ELSE Panic

\* if let Ok(s) = from_utf8(..) { s } else { "" }
str_or_empty(r) == IF r.panic THEN <<>> ELSE r.val

\* i32::from_be_bytes
i32_from_be_bytes(b0, b1, b2, b3) ==
    (((IF b0 >= 128 THEN b0 - 256 ELSE b0) * 256 + b1) * 256 + b2) * 256 + b3

ErrorMsgFlags_ERROR == 1
ErrorMsgFlags_IS_LV_CODE == 2
ErrorMsgFlags_all == BitOr(ErrorMsgFlags_ERROR, ErrorMsgFlags_IS_LV_CODE)

\* The parse functions index the slice they are given; an index or a range
\* past its end panics.

DisableFaults_parse(b) ==
    IF ~ InBounds(b, 3) THEN Panic
    ELSE Ok([tag |-> "DisableFaults",
             comms |-> u16_from_be_bytes(at(b, 0), at(b, 1)),
             pwr12v |-> u16_from_be_bytes(at(b, 2), at(b, 3))])

\* The three fields read as little-endian.
RailFaults_parse_le(b) ==
    IF ~ InBounds(b, 5) THEN Panic
    ELSE Ok([tag |-> "RailFaults",
             pwr6v |-> u16_from_be_bytes(at(b, 1), at(b, 0)),
             pwr5v |-> u16_from_be_bytes(at(b, 3), at(b, 2)),
             pwr3_3v |-> u16_from_be_bytes(at(b, 5), at(b, 4))])

RailFaults_parse(b) ==
    IF ~ InBounds(b, 5) THEN Panic
    ELSE Ok([tag |-> "RailFaults",
             pwr6v |-> u16_from_be_bytes(at(b, 0), at(b, 1)),
             pwr5v |-> u16_from_be_bytes(at(b, 2), at(b, 3)),
             pwr3_3v |-> u16_from_be_bytes(at(b, 4), at(b, 5))])

\* name is &buf[5..=5 + name_len], version_len is buf[6 + name_len], version
\* is &buf[7 + name_len..=7 + name_len + version_len]
VersionInfo_parse(b) ==
    IF ~ InBounds(b, 4) THEN Panic
    ELSE LET name_len == at(b, 4)
         IN  IF 5 + name_len + 1 > Len(b) \/ ~ InBounds(b, 6 + name_len) THEN Panic
             ELSE LET version_len == at(b, 6 + name_len)
                  IN  IF 7 + name_len + version_len + 1 > Len(b) THEN Panic
                      ELSE Ok([tag |-> "VersionInfo", ty |-> at(b, 0), id |-> at(b, 3),
                               name |-> str_or_empty(
                                   from_utf8(slice(b, 5, 5 + name_len + 1))),
                               version |-> str_or_empty(
                                   from_utf8(slice(b, 7 + name_len,
                                                   7 + name_len + version_len + 1)))])

ErrorMessage_parse(b) ==
    IF ~ InBounds(b, 14) THEN Panic
    ELSE LET flags == from_bits(ErrorMsgFlags_all, at(b, 12))
             details_len == u16_from_be_bytes(at(b, 13), at(b, 14))
         IN  IF 15 + details_len > Len(b) \/ ~ InBounds(b, 16 + details_len) THEN Panic
             ELSE LET location_len ==
                          u16_from_be_bytes(at(b, 15 + details_len), at(b, 16 + details_len))
                      stack_at == 17 + details_len + location_len
                  IN  IF stack_at > Len(b) \/ ~ InBounds(b, stack_at + 1) THEN Panic
                      ELSE LET call_stack_len ==
                                   u16_from_be_bytes(at(b, stack_at), at(b, stack_at + 1))
                           IN  IF stack_at + 2 + call_stack_len > Len(b) THEN Panic
                               ELSE Ok([tag |-> "ErrorMessage",
                                        timestamp |-> u32_from_be_bytes(
                                            at(b, 0), at(b, 1), at(b, 2), at(b, 3)),
                                        seqnum |-> u16_from_be_bytes(at(b, 4), at(b, 5)),
                                        error_code |-> i32_from_be_bytes(
                                            at(b, 8), at(b, 9), at(b, 10), at(b, 11)),
                                        flags |-> IF flags.panic THEN 0 ELSE flags.val,
                                        details |-> str_or_empty(from_utf8(
                                            slice(b, 15, 15 + details_len))),
                                        location |-> str_or_empty(from_utf8(
                                            slice(b, 17 + details_len, stack_at))),
                                        call_stack |-> str_or_empty(from_utf8(
                                            slice(b, stack_at + 2,
                                                  stack_at + 2 + call_stack_len)))])

Stdout_parse(b) ==
    IF ~ InBounds(b, 5) THEN Panic
    ELSE Ok([tag |-> "Stdout",
             timestamp |-> u32_from_be_bytes(at(b, 0), at(b, 1), at(b, 2), at(b, 3)),
             seqnum |-> u16_from_be_bytes(at(b, 4), at(b, 5)),
             message |-> str_or_empty(from_utf8(slice_from(b, 6)))])

\* what next returns when it returns None
NoTag == [tag |-> "none"]

\* next's match on id, given the frame's size field and the slice after the
\* id: Ok(the tag), Ok(NoTag) for None, Panic for a failed assert or unwrap
tcp_arm(id, size, b) ==
    IF id = 0 THEN
        LET message == from_utf8(b)
        IN  IF message.panic THEN Panic
            ELSE Ok([tag |-> "RadioEvent", message |-> message.val])
    ELSE IF id = 1 THEN Ok([tag |-> "UsageReport"])
    ELSE IF id = 4 THEN (IF size # 5 THEN Panic ELSE DisableFaults_parse(b))
    ELSE IF id = 5 THEN (IF size # 7 THEN Panic ELSE RailFaults_parse(b))
    ELSE IF id = 10 THEN (IF ~ (size >= 6) THEN Panic ELSE VersionInfo_parse(b))
    ELSE IF id = 11 THEN (IF ~ (size >= 20) THEN Panic ELSE ErrorMessage_parse(b))
    ELSE IF id = 12 THEN (IF ~ (size >= 7) THEN Panic ELSE Stdout_parse(b))
    ELSE IF id = 13 THEN
        IF b # <<0, 0, 4, 4, 4, 4>> THEN Panic ELSE Ok([tag |-> "Dummy"])
    ELSE Ok(NoTag)

\* TcpTagStream::next on a stream [buf, pos].  buf is re-sliced at the cursor
\* on entry; the cursor then moves past the length and the id, and the slice
\* handed to the match is that slice taken again from the moved cursor.
\* [ret: "Some" | "None" | "panic", pos: the cursor afterwards, item: the tag]
TcpTagStream_next(s) ==
    LET len == Len(s.buf)
    IN  IF len - s.pos < 2 THEN [ret |-> "None", pos |-> s.pos, item |-> NoTag]
        ELSE LET buf == slice_from(s.buf, s.pos)
                 size == u16_from_be_bytes(at(buf, 0), at(buf, 1))
                 pos2 == s.pos + 2
                 pos3 == pos2 + 1
             IN  IF ~ (size > 0) THEN [ret |-> "None", pos |-> pos2, item |-> NoTag]
                 ELSE IF ~ InBounds(buf, 2)
                      THEN [ret |-> "panic", pos |-> pos2, item |-> NoTag]
                 ELSE IF pos3 > Len(buf)
                      THEN [ret |-> "panic", pos |-> pos3, item |-> NoTag]
                 ELSE LET r == tcp_arm(at(buf, 2), size, slice_from(buf, pos3))
                      IN  IF r.panic
                          THEN [ret |-> "panic", pos |-> pos3, item |-> NoTag]
                          ELSE [ret |-> IF r.val.tag = "none" THEN "None" ELSE "Some",
                                pos |-> pos3, item |-> r.val]

\* next read a frame length of zero at the cursor of s
reads_zero_length(s) ==
    /\ ~ (Len(s.buf) - s.pos < 2)
    /\ u16_from_be_bytes(at(s.buf, s.pos), at(s.buf, s.pos + 1)) = 0

\* TcpTagStream::new.  yielded, last and ended are history: the tags yielded
\* so far, what the last call did, whether a call has read a zero length
TcpTagStream_new(buf) ==
    [buf |-> buf, pos |-> 0, yielded |-> <<>>, last |-> "new", ended |-> FALSE]

\* ------------------------------------------------------------------ bounds

\* concurrent callers of the command methods
NumTasks == 2
\* tag blocks after the header of a datagram under test
MaxTags == 2
\* frames in a TCP buffer under test
MaxFrames == 2
\* buttons of a joystick tag under test
MaxButtons == 9

\* the longest name and the longest version string of a version-info payload
MaxText == 2

CmdTasks == 1..NumTasks
\* two invocations of Ds::run, numbered in the order of their calls: one that
\* gets the locks, one that finds them taken
RunTasks == {NumTasks + 1, NumTasks + 2}

Commands == {"enable", "disable", "estop", "reboot_rio", "restart_code"}
StoringCommands == {"enable", "disable", "estop"}

\* ------------------------------------------------------------------ lib.rs: Ds

NoPacket == [seqnum |-> 0, comm_version |-> 0, control |-> 0, req |-> 0,
             alliance |-> AlliancePos("Red", 1), tags |-> <<>>]

\* a Mutex no task holds (tasks are numbered from 1)
Free == 0

NoCall == [fn |-> "none"]

NoItem == UdpIncomingPacket(0, 0, 0, 0, FALSE)

InitSession ==
    /\ ds = Ds_init
    /\ locks = [rio_tcp_rx |-> Free, rio_tcp_tx |-> Free,
                rio_incoming_udp |-> Free, rio_outgoing_udp |-> Free]
    /\ pc = [t \in CmdTasks |-> "idle"] @@ [r \in RunTasks |-> "start"]
    /\ cmd = [t \in CmdTasks |-> "none"]
    /\ pkt = [t \in CmdTasks |-> NoPacket]
    /\ net = [udp |-> <<>>, tcp |-> <<>>, events |-> <<>>,
              parsed |-> FALSE, packet |-> NoItem]

\* A disable that stores NoCommunication.
stored_status_no_comm(c) ==
    IF c = "enable" THEN "Enabled"
    ELSE IF c = "disable" THEN "NoCommunication"
    ELSE "EStopped"

\* what enable, disable and estop store into ds.status
stored_status(c) ==
    IF c = "enable" THEN "Enabled"
    ELSE IF c = "disable" THEN "Disabled"
    ELSE "EStopped"

\* The request flags a method sets on the packet it built.
with_request(c, p) ==
    IF c = "reboot_rio" THEN reboot_rio(p)
    ELSE IF c = "restart_code" THEN restart_code(p)
    ELSE p

\* enable / disable / estop, up to self.status.store(..): the call is now
\* in send_udp, waiting for the lock
Store(t, c) ==
    /\ pc[t] = "idle"
    /\ c \in StoringCommands
    /\ ds' = [ds EXCEPT !.status = stored_status(c)]
    /\ cmd' = [cmd EXCEPT ![t] = c]
    /\ pc' = [pc EXCEPT ![t] = "lock"]
    /\ UNCHANGED <<locks, pkt, net, stream, call>>

\* reboot_rio / restart_code that also mark the robot Disabled in ds.status.
BuildRequest_stores(t, c) ==
    /\ pc[t] = "idle"
    /\ c \in Commands \ StoringCommands
    /\ ds' = [ds EXCEPT !.status = "Disabled"]
    /\ pkt' = [pkt EXCEPT ![t] =
                 with_request(c, build("Disabled", ds.mode, ds.alliance_pos))]
    /\ cmd' = [cmd EXCEPT ![t] = c]
    /\ pc' = [pc EXCEPT ![t] = "lock"]
    /\ UNCHANGED <<locks, net, stream, call>>

\* reboot_rio / restart_code, up to pkt.reboot_rio() / pkt.restart_code():
\* UdpOutgoingPacket::build(self) loads status, mode and alliance_pos, then
\* the request flag is set; the call is now waiting for the lock
BuildRequest(t, c) ==
    /\ pc[t] = "idle"
    /\ c \in Commands \ StoringCommands
    /\ pkt' = [pkt EXCEPT ![t] =
                 with_request(c, build(ds.status, ds.mode, ds.alliance_pos))]
    /\ cmd' = [cmd EXCEPT ![t] = c]
    /\ pc' = [pc EXCEPT ![t] = "lock"]
    /\ UNCHANGED <<ds, locks, net, stream, call>>

\* A lock().await that also waits for the Mutex of the UDP receive socket.
Lock_after_receive(t) ==
    /\ pc[t] = "lock"
    /\ locks.rio_outgoing_udp = Free
    /\ locks.rio_incoming_udp = Free
    /\ locks' = [locks EXCEPT !.rio_outgoing_udp = t]
    /\ pc' = [pc EXCEPT ![t] = IF cmd[t] \in StoringCommands THEN "build" ELSE "send"]
    /\ UNCHANGED <<ds, cmd, pkt, net, stream, call>>

\* self.rio_outgoing_udp.lock().await: in send_udp before the packet is
\* built, in reboot_rio and restart_code after it
Lock(t) ==
    /\ pc[t] = "lock"
    /\ locks.rio_outgoing_udp = Free
    /\ locks' = [locks EXCEPT !.rio_outgoing_udp = t]
    /\ pc' = [pc EXCEPT ![t] = IF cmd[t] \in StoringCommands THEN "build" ELSE "send"]
    /\ UNCHANGED <<ds, cmd, pkt, net, stream, call>>

\* send_udp, holding the lock: UdpOutgoingPacket::build(self) loads status,
\* mode and alliance_pos
Build(t) ==
    /\ pc[t] = "build"
    /\ pkt' = [pkt EXCEPT ![t] = build(ds.status, ds.mode, ds.alliance_pos)]
    /\ pc' = [pc EXCEPT ![t] = "send"]
    /\ UNCHANGED <<ds, locks, cmd, net, stream, call>>

\* .send(&pkt.write()).await.unwrap() returns: write(pkt[t]) went out on the
\* socket, the guard is dropped and the method returns
Send(t) ==
    /\ pc[t] = "send"
    /\ locks.rio_outgoing_udp = t
    /\ ~ write(pkt[t]).panic
    /\ locks' = [locks EXCEPT !.rio_outgoing_udp = Free]
    /\ pc' = [pc EXCEPT ![t] = "idle"]
    /\ cmd' = [cmd EXCEPT ![t] = "none"]
    /\ pkt' = [pkt EXCEPT ![t] = NoPacket]
    /\ UNCHANGED <<ds, net, stream, call>>

\* the send returns an error, or write panics: the guard is dropped by the
\* unwinding and the calling task is gone
SendFails(t) ==
    /\ pc[t] = "send"
    /\ locks.rio_outgoing_udp = t
    /\ locks' = [locks EXCEPT !.rio_outgoing_udp = Free]
    /\ pc' = [pc EXCEPT ![t] = "panicked"]
    /\ cmd' = [cmd EXCEPT ![t] = "none"]
    /\ pkt' = [pkt EXCEPT ![t] = NoPacket]
    /\ UNCHANGED <<ds, net, stream, call>>

Getters == {"status", "mode", "can_bus_util"}

\* A getter that needs the Mutex of the UDP receive socket for its load.
Get_locked(t, g) ==
    /\ pc[t] = "idle"
    /\ call = NoCall
    /\ g \in Getters
    /\ locks.rio_incoming_udp = Free
    /\ call' = [fn |-> g, ret |-> ds[g]]
    /\ cmd' = [cmd EXCEPT ![t] = g]
    /\ pc' = [pc EXCEPT ![t] = "got"]
    /\ UNCHANGED <<ds, locks, pkt, net, stream>>

\* status() / mode() / can_bus_util(): one load of the AtomicCell, returned
\* to the caller.  call holds what was returned until the caller takes it.
Get(t, g) ==
    /\ pc[t] = "idle"
    /\ call = NoCall
    /\ g \in Getters
    /\ call' = [fn |-> g, ret |-> ds[g]]
    /\ cmd' = [cmd EXCEPT ![t] = g]
    /\ pc' = [pc EXCEPT ![t] = "got"]
    /\ UNCHANGED <<ds, locks, pkt, net, stream>>

\* the caller goes on with the value it got
Return(t) ==
    /\ pc[t] = "got"
    /\ call' = NoCall
    /\ cmd' = [cmd EXCEPT ![t] = "none"]
    /\ pc' = [pc EXCEPT ![t] = "idle"]
    /\ UNCHANGED <<ds, locks, pkt, net, stream>>

\* ------------------------------------------------------------------ lib.rs: Ds::run

\* udp_rx.try_recv(&mut buf): the datagram is copied into the slice buf
\* derefs to, as far as the slice reaches; the Vec keeps its length
try_recv(buf, datagram) ==
    LET n == IF Len(datagram) < Len(buf) THEN Len(datagram) ELSE Len(buf)
    IN  SubSeq(datagram, 1, n) \o SubSeq(buf, n + 1, Len(buf))

\* Vec::new()
Vec_new == <<>>

\* The for loop of the UDP branch over a stream s, from session state d:
\* each packet yielded goes through find_status and the three stores.
\* [panic, ds, stream, parsed, packet]
RECURSIVE udp_branch(_, _, _)
udp_branch(d, s, seen) ==
    LET r == UdpIncomingStream_next(s)
    IN  IF r.ret = "panic"
        THEN [panic |-> TRUE, ds |-> d, stream |-> [s EXCEPT !.last = "panic"], seen |-> seen]
        ELSE IF r.ret = "None"
        THEN [panic |-> FALSE, ds |-> d,
              stream |-> [s EXCEPT !.pos = r.pos, !.last = "None"], seen |-> seen]
        ELSE LET f == find_status(r.item.status, r.item.trace)
                 s2 == [s EXCEPT !.pos = r.pos, !.last = "Some",
                                 !.yielded = Append(@, r.item)]
                 now == [parsed |-> TRUE, packet |-> r.item]
             IN  IF f.panic
                 THEN [panic |-> TRUE, ds |-> d, stream |-> s2, seen |-> now]
                 ELSE udp_branch([d EXCEPT !.status = f.val.status,
                                           !.mode = f.val.mode,
                                           !.battery = r.item.battery],
                                 s2, now)

\* A lock() that returns without waiting for the holder.
RunLockUdp_no_wait(r) ==
    /\ pc[r] = "start"
    /\ \A q \in RunTasks : q < r => pc[q] # "start"
    /\ locks' = [locks EXCEPT !.rio_incoming_udp = r, !.rio_tcp_rx = Free]
    /\ pc' = [pc EXCEPT ![r] = "lock_tcp"]
    /\ UNCHANGED <<ds, cmd, pkt, net, stream, call>>

\* self.rio_incoming_udp.lock().await; the Mutex serves its waiters in the
\* order they asked
RunLockUdp(r) ==
    /\ pc[r] = "start"
    /\ \A q \in RunTasks : q < r => pc[q] # "start"
    /\ locks.rio_incoming_udp = Free
    /\ locks' = [locks EXCEPT !.rio_incoming_udp = r]
    /\ pc' = [pc EXCEPT ![r] = "lock_tcp"]
    /\ UNCHANGED <<ds, cmd, pkt, net, stream, call>>

\* self.rio_tcp_rx.lock().await
RunLockTcp(r) ==
    /\ pc[r] = "lock_tcp"
    /\ locks.rio_tcp_rx = Free
    /\ locks' = [locks EXCEPT !.rio_tcp_rx = r]
    /\ pc' = [pc EXCEPT ![r] = "select"]
    /\ UNCHANGED <<ds, cmd, pkt, net, stream, call>>

\* a panic inside run: both guards are dropped by the unwinding
run_panics(r) ==
    /\ locks' = [locks EXCEPT !.rio_incoming_udp = Free, !.rio_tcp_rx = Free]
    /\ pc' = [pc EXCEPT ![r] = "panicked"]

\* One iteration of the loop through the udp_rx.readable() branch, with the
\* datagram the peer sent pending on the socket.
RunUdp(r, datagram) ==
    /\ pc[r] = "select"
    /\ LET buf == try_recv(Vec_new, datagram)
           b == udp_branch(ds, UdpIncomingStream_new(buf),
                           [parsed |-> net.parsed, packet |-> net.packet])
       IN  /\ ds' = b.ds
           /\ stream' = b.stream
           /\ net' = [udp |-> datagram, tcp |-> <<>>, events |-> <<>>,
                      parsed |-> b.seen.parsed, packet |-> b.seen.packet]
           /\ IF b.panic THEN run_panics(r) ELSE UNCHANGED <<locks, pc>>
    /\ UNCHANGED <<cmd, pkt, call>>

\* tcp_rx.try_read_buf(&mut buf): the bytes pending on the stream are
\* appended to the Vec, which grows to take them
try_read_buf(buf, pending) == buf \o pending

\* The match on a tag in the TCP branch, for the i-th tag of the buffer: the
\* events its handler reports.  No handler reads or writes the session.
handle(tag, i) ==
    IF tag.tag \in {"DisableFaults", "RailFaults"}
    THEN <<[level |-> "ERROR", of |-> i, record |-> tag]>>
    ELSE IF tag.tag \in {"VersionInfo", "Stdout"}
    THEN <<[level |-> "INFO", of |-> i, record |-> tag]>>
    ELSE IF tag.tag = "ErrorMessage"
    THEN <<[level |-> IF contains(tag.flags, ErrorMsgFlags_ERROR) THEN "ERROR" ELSE "WARN",
            of |-> i, record |-> tag]>>
    ELSE <<>>

\* The for loop of the TCP branch over a stream s: each tag yielded goes
\* through the match.  [panic, stream, events]
RECURSIVE tcp_branch(_, _)
tcp_branch(s, events) ==
    LET r == TcpTagStream_next(s)
    IN  IF r.ret = "panic"
        THEN [panic |-> TRUE, stream |-> [s EXCEPT !.pos = r.pos, !.last = "panic"],
              events |-> events]
        ELSE IF r.ret = "None"
        THEN [panic |-> FALSE,
              stream |-> [s EXCEPT !.pos = r.pos, !.last = "None",
                                   !.ended = @ \/ reads_zero_length(s)],
              events |-> events]
        ELSE LET s2 == [s EXCEPT !.pos = r.pos, !.last = "Some",
                                 !.yielded = Append(@, r.item)]
             IN  tcp_branch(s2, events \o handle(r.item, Len(s2.yielded)))

\* a rail-faults frame: length 7, id 0x05, three u16 fields
RailFrame(a, b, c) ==
    <<0, 7, 5, a \div 256, a % 256, b \div 256, b % 256, c \div 256, c % 256>>

\* TCP bytes the robot sends during a session: a rail-faults frame whose
\* payload reads on as further frames, and one whose payload ends the buffer
PeerSegments == {RailFrame(10, 20, 30), RailFrame(0, 1287, 65535)}

\* The TCP branch from try_read_buf to the end of its for loop, for each
\* segment the peer sends
tcp_iteration ==
    [pending \in PeerSegments |->
        tcp_branch(TcpTagStream_new(try_read_buf(Vec_new, pending)), <<>>)]

\* One iteration of the loop through the tcp_rx.readable() branch, with the
\* bytes the peer sent pending on the stream.
RunTcp(r, pending) ==
    /\ pc[r] = "select"
    /\ LET b == tcp_iteration[pending]
       IN  /\ stream' = b.stream
           /\ net' = [net EXCEPT !.udp = <<>>, !.tcp = pending, !.events = b.events]
           /\ IF b.panic THEN run_panics(r) ELSE UNCHANGED <<locks, pc>>
    /\ UNCHANGED <<ds, cmd, pkt, call>>

\* readable(), try_recv or try_read_buf returns an error: unwrap() / panic!()
RunRecvFails(r) ==
    /\ pc[r] = "select"
    /\ run_panics(r)
    /\ UNCHANGED <<ds, cmd, pkt, net, stream, call>>

\* ------------------------------------------------------------------ inputs

\* Every value of the Status and Trace flag types
StatusValues == {b \in Byte : ~ from_bits(Status_all, b).panic}
TraceValues == {b \in Byte : ~ from_bits(Trace_all, b).panic}

Colors == {"Red", "Blue"}
AlliancePosValues == {AlliancePos(c, p) : c \in Colors, p \in 0..4}

\* The 8 header bytes of a status datagram
Header(status, trace, need_date) == <<1, 2, 1, status, trace, 12, 34, need_date>>

\* status 0x00 (disabled teleop), 0x84 (e-stop + enabled), 0x40 (no flag of Status);
\* trace 0x20 (robot code), 0x80 (no flag of Trace)
Headers == {Header(st, tr, nd) : st \in {0, 132, 64}, tr \in {32, 128}, nd \in {0, 1}}

\* utilization 37.5 and 50.0 as f32 big-endian, then bus_off, tx_full, rx/tx errors
CanPayloads == {<<66, 22, 0, 0>> \o <<0, 0, 0, 1, 0, 0, 0, 2, 3, 4, 0>>,
                <<66, 72, 0, 0>> \o <<0, 0, 0, 1, 0, 0, 0, 2, 3, 4, 0>>}

\* Tag blocks [size, id, payload]: an empty joystick echo, disk space, CAN
\* metrics, an id next does not know
TagBlocks ==
    {<<1, 1>>, <<5, 4, 0, 0, 16, 0, 9>>, <<3, 127, 7, 8, 9>>}
    \cup {<<15, 14>> \o c : c \in CanPayloads}

\* A block as the peer frames it, size - 1 payload bytes after the id, or with
\* size payload bytes after the id
Framings(block) == {SubSeq(block, 1, 1 + block[1]), block}

RECURSIVE Tails(_)
Tails(n) ==
    IF n = 0 THEN {<<>>}
    ELSE LET shorter == Tails(n - 1)
         IN  shorter \cup {t \o f : t \in shorter, f \in UNION {Framings(b) : b \in TagBlocks}}

Prefixes(b) == {SubSeq(b, 1, n) : n \in 0..Len(b)}

\* Datagrams under test: a header, up to n blocks, cut off anywhere
Datagrams(n) == UNION {Prefixes(h \o t) : h \in Headers, t \in Tails(n)}

\* TCP frames [length (2 bytes), id, payload] under test: usage report, disable faults,
\* rail faults, radio event "hi", radio event with a byte that is not UTF-8,
\* stdout "ok", stdout with a byte that is not UTF-8, version info (type 1,
\* id 2, name "ab", version "1"), error message (details "d", location "l",
\* call stack "c"), the 0x0D frame, an id next does not know, a zero length
TcpFrames ==
    {<<0, 1, 1>>,
     <<0, 5, 4, 0, 1, 0, 2>>,
     RailFrame(10, 20, 30),
     <<0, 3, 0, 104, 105>>,
     <<0, 2, 0, 255>>,
     <<0, 9, 12, 63, 128, 0, 0, 0, 1, 111, 107>>,
     <<0, 8, 12, 63, 128, 0, 0, 0, 1, 255>>,
     <<0, 10, 10, 1, 0, 0, 2, 2, 97, 98, 1, 49>>,
     <<0, 23, 11, 0, 0, 0, 0, 0, 1, 0, 0, 255, 255, 255, 255, 1,
       0, 1, 100, 0, 1, 108, 0, 1, 99>>,
     <<0, 7, 13, 0, 0, 4, 4, 4, 4>>,
     <<0, 2, 99, 1>>,
     <<0, 0>>}

RECURSIVE TcpTails(_)
TcpTails(n) ==
    IF n = 0 THEN {<<>>}
    ELSE LET shorter == TcpTails(n - 1)
         IN  shorter \cup {t \o f : t \in shorter, f \in TcpFrames}

\* u16 values for the fields of a rail-faults frame
U16Samples == {0, 7, 10, 1287, 65535}

\* TCP buffers under test: up to n frames, cut off anywhere; one rail-faults
\* frame for each choice of its three fields, alone and ahead of another frame
TcpBuffers(n) ==
    UNION {Prefixes(t) : t \in TcpTails(n)}
    \cup {RailFrame(a, b, c) \o t :
             a \in U16Samples, b \in U16Samples, c \in U16Samples,
             t \in {<<>>, <<0, 1, 1>>}}

\* Datagrams the robot sends during a session
PeerDatagrams ==
    {Header(0, 32, 0) \o <<15, 14, 66, 22, 0, 0, 0, 0, 0, 1, 0, 0, 0, 2, 3, 4, 0>>}

\* ------------------------------------------------------------------ functions under test

TestFindStatus(status, trace) ==
    /\ call = NoCall
    /\ call' = [fn |-> "find_status", status |-> status, trace |-> trace,
                ret |-> find_status(status, trace)]
    /\ UNCHANGED <<ds, locks, pc, cmd, pkt, net, stream>>

TestBuild(status, mode, alliance) ==
    /\ call = NoCall
    /\ call' = [fn |-> "build", status |-> status, mode |-> mode, alliance |-> alliance,
                ret |-> Ok(build(status, mode, alliance))]
    /\ UNCHANGED <<ds, locks, pc, cmd, pkt, net, stream>>

TestWrite(status, mode, alliance) ==
    /\ call = NoCall
    /\ call' = [fn |-> "write", status |-> status, mode |-> mode, alliance |-> alliance,
                ret |-> write(build(status, mode, alliance))]
    /\ UNCHANGED <<ds, locks, pc, cmd, pkt, net, stream>>

\* every button list of length n
RECURSIVE ButtonLists(_)
ButtonLists(n) ==
    IF n = 0 THEN {<<>>}
    ELSE {Append(l, b) : l \in ButtonLists(n - 1), b \in BOOLEAN}

\* Tags under test: joysticks with up to n buttons, with and without axes
\* and povs; a countdown of 1.5, a date, a timezone "UTC"
OutgoingTags(n) ==
    {[kind |-> "Joystick", axes |-> a, buttons |-> l, povs |-> p] :
        a \in {<<>>, <<-128, 127>>}, l \in UNION {ButtonLists(k) : k \in 0..n},
        p \in {<<>>, <<-1>>}}
    \cup {[kind |-> "Countdown", countdown |-> 1069547520],
          [kind |-> "Date", microseconds |-> 0, second |-> 0, minute |-> 0, hour |-> 0,
           day |-> 1, month |-> 0, year |-> 126],
          [kind |-> "Timezone", timezone |-> <<85, 84, 67>>]}

\* the tags handed to write
TagsUnderTest == OutgoingTags(MaxButtons)

TestTagWrite(tag) ==
    /\ call = NoCall
    /\ call' = [fn |-> "tag_write", tag |-> tag, ret |-> Ok(UdpOutgoingTag_write(tag))]
    /\ UNCHANGED <<ds, locks, pc, cmd, pkt, net, stream>>

\* every string of n bytes over 'a' and 'b'
RECURSIVE Texts(_)
Texts(n) ==
    IF n = 0 THEN {<<>>}
    ELSE {Append(x, c) : x \in Texts(n - 1), c \in {97, 98}}

\* Version-info payloads: type byte 1, two reserved bytes, device id 2, a
\* name and a version of up to n bytes, each after its length byte; the
\* payload ends the buffer or three more bytes follow it
VersionPayloads(n) ==
    {<<1, 0, 0, 2, Len(name)>> \o name \o <<Len(version)>> \o version \o rest :
        name \in UNION {Texts(k) : k \in 0..n},
        version \in UNION {Texts(k) : k \in 0..n},
        rest \in {<<>>, <<99, 100, 101>>}}

\* the payloads handed to VersionInfo::parse
PayloadsUnderTest == VersionPayloads(MaxText)

TestVersionInfo(b) ==
    /\ call = NoCall
    /\ call' = [fn |-> "VersionInfo_parse", buf |-> b, ret |-> VersionInfo_parse(b)]
    /\ UNCHANGED <<ds, locks, pc, cmd, pkt, net, stream>>

\* A caller's for loop over an UdpIncomingStream: one call of next, until it
\* returns None or panics
StreamNext ==
    /\ stream.last \in {"new", "Some"}
    /\ LET r == UdpIncomingStream_next(stream)
       IN  stream' = [stream EXCEPT
                        !.pos = r.pos, !.last = r.ret,
                        !.yielded = IF r.ret = "Some" THEN Append(@, r.item) ELSE @]
    /\ UNCHANGED <<ds, locks, pc, cmd, pkt, net, call>>

\* A caller of TcpTagStream::next that puts each tag through the match of
\* the TCP branch, and that may call next again after a None
TcpStreamNext ==
    /\ stream.last # "panic"
    /\ LET r == TcpTagStream_next(stream)
       IN  /\ stream' = [stream EXCEPT
                           !.pos = r.pos, !.last = r.ret,
                           !.yielded = IF r.ret = "Some" THEN Append(@, r.item) ELSE @,
                           !.ended = @ \/ reads_zero_length(stream)]
           /\ net' = [net EXCEPT
                        !.tcp = stream.buf,
                        !.events = IF r.ret = "Some"
                                   THEN @ \o handle(r.item, Len(stream.yielded) + 1)
                                   ELSE @]
    /\ UNCHANGED <<ds, locks, pc, cmd, pkt, call>>

\* ------------------------------------------------------------------ specifications

Init ==
    /\ InitSession
    /\ stream = UdpIncomingStream_new(Vec_new)
    /\ call = NoCall

Next ==
    \/ \E t \in CmdTasks, c \in Commands : Store(t, c)
    \/ \E t \in CmdTasks, c \in Commands : BuildRequest(t, c)
    \/ \E t \in CmdTasks : Lock(t)
    \/ \E t \in CmdTasks : Build(t)
    \/ \E t \in CmdTasks : Send(t)
    \/ \E t \in CmdTasks : SendFails(t)
    \/ \E r \in RunTasks : RunLockUdp(r)
    \/ \E r \in RunTasks : RunLockTcp(r)
    \/ \E t \in CmdTasks, g \in Getters : Get(t, g)
    \/ \E t \in CmdTasks : Return(t)
    \/ \E r \in RunTasks, d \in PeerDatagrams : RunUdp(r, d)
    \/ \E r \in RunTasks, b \in PeerSegments : RunTcp(r, b)
    \/ \E r \in RunTasks : RunRecvFails(r)

\* The session: command callers and run() invocations on one Ds
Spec == Init /\ [][Next]_vars

\* The command callers and the locks of run() when every send completes:
\* SendFails is left out; so are the getters, which take no lock, and the
\* reads of run()'s loop, which change neither a lock nor a field a command
\* loads.  run() takes its two locks and keeps them until it panics.
NextSending ==
    \/ \E t \in CmdTasks, c \in Commands : Store(t, c)
    \/ \E t \in CmdTasks, c \in Commands : BuildRequest(t, c)
    \/ \E t \in CmdTasks : Lock(t)
    \/ \E t \in CmdTasks : Build(t)
    \/ \E t \in CmdTasks : Send(t)
    \/ \E r \in RunTasks : RunLockUdp(r)
    \/ \E r \in RunTasks : RunLockTcp(r)
    \/ \E r \in RunTasks : RunRecvFails(r)

\* The runtime polls a task that can go on (weak fairness of Build and Send);
\* tokio's Mutex hands the lock to its waiters in the order they asked, so a
\* caller that waits while the lock is freed again and again gets it (strong
\* fairness of Lock).
Fairness ==
    \A t \in CmdTasks :
        /\ SF_vars(Lock(t))
        /\ WF_vars(Build(t))
        /\ WF_vars(Send(t))

\* The session under fair scheduling, with sends that complete
SpecFair == Init /\ [][NextSending]_vars /\ Fairness

NextFn ==
    \/ \E st \in StatusValues, tr \in TraceValues : TestFindStatus(st, tr)
    \/ \E st \in RobotStatus, m \in RobotCodeMode, a \in AlliancePosValues :
          TestBuild(st, m, a)
    \/ \E st \in RobotStatus, m \in RobotCodeMode, a \in AlliancePosValues :
          TestWrite(st, m, a)
    \/ \E tag \in TagsUnderTest : TestTagWrite(tag)
    \/ \E b \in PayloadsUnderTest : TestVersionInfo(b)

\* The pure functions, applied to every input of their types
SpecFn == Init /\ [][NextFn]_vars

InitUdp ==
    /\ InitSession
    /\ stream \in {UdpIncomingStream_new(b) : b \in Datagrams(MaxTags)}
    /\ call = NoCall

NextUdp == StreamNext

\* UdpIncomingStream iterated over each datagram under test
SpecUdp == InitUdp /\ [][NextUdp]_vars

InitTcp ==
    /\ InitSession
    /\ stream \in {TcpTagStream_new(b) : b \in TcpBuffers(MaxFrames)}
    /\ call = NoCall

NextTcp == TcpStreamNext

\* TcpTagStream iterated over each TCP buffer under test
SpecTcp == InitTcp /\ [][NextTcp]_vars

\* ------------------------------------------------------------------ properties

\* bit k (0 = least significant) of a byte
Bit(b, k) == (b \div (2 ^ k)) % 2

\* C1: whenever find_status returns, the lifecycle state is the first match
\* of: ROBOT_CODE clear in trace -> NoRobotCode; ESTOP set -> EStopped;
\* BROWNOUT set -> BrownedOut; ENABLED set -> Enabled; else Disabled.
C1_Precedence ==
    (call.fn = "find_status" /\ ~ call.ret.panic) =>
        call.ret.val.status =
            IF Bit(call.trace, 5) = 0 THEN "NoRobotCode"
            ELSE IF Bit(call.status, 7) = 1 THEN "EStopped"
            ELSE IF Bit(call.status, 4) = 1 THEN "BrownedOut"
            ELSE IF Bit(call.status, 2) = 1 THEN "Enabled"
            ELSE "Disabled"

\* find_status returned EStopped for ESTOP + BROWNOUT + ENABLED with robot code
C1_Witness ==
    /\ call.fn = "find_status"
    /\ call.status = 148
    /\ call.trace = 32
    /\ ~ call.ret.panic
    /\ call.ret.val.status = "EStopped"

\* C2: for a status byte whose mode field is 0, 2 or 1, with any trace byte,
\* find_status returns, and the mode is Teleop, Autonomous or Test.
C2_ValidModesDerive ==
    (call.fn = "find_status" /\ call.status % 4 \in {0, 1, 2}) =>
        /\ ~ call.ret.panic
        /\ call.ret.val.mode =
              IF call.status % 4 = 0 THEN "Teleop"
              ELSE IF call.status % 4 = 2 THEN "Autonomous"
              ELSE "Test"

\* the lifecycle state a command method is documented to store
CommandState(c) ==
    IF c = "enable" THEN "Enabled"
    ELSE IF c = "disable" THEN "Disabled"
    ELSE IF c = "estop" THEN "EStopped"
    ELSE "none"

C4_PacketCarriesOwnState ==
    \A t \in CmdTasks :
        (pc[t] = "send" /\ cmd[t] \in StoringCommands) =>
            /\ Bit(pkt[t].control, 7) = (IF cmd[t] = "estop" THEN 1 ELSE 0)
            /\ Bit(pkt[t].control, 2) = (IF cmd[t] = "enable" THEN 1 ELSE 0)

\* C5: for station s in 1..3 the alliance byte of a written control packet is
\* s - 1 for Red and 3 + s - 1 for Blue.
C5_AllianceByte ==
    (call.fn = "write" /\ call.alliance.pos \in 1..3) =>
        /\ ~ call.ret.panic
        /\ call.ret.val[6] =
              (IF call.alliance.color = "Red" THEN 0 ELSE 3) + call.alliance.pos - 1

\* C6: the control byte build makes has ESTOP exactly when the state is
\* EStopped and ENABLED exactly when it is Enabled (so never both), and its
\* two low bits are 00 for Teleop, 10 for Autonomous and 01 for Test.
C6_ControlFlags ==
    call.fn = "build" =>
        LET control == call.ret.val.control
        IN  /\ Bit(control, 7) = (IF call.status = "EStopped" THEN 1 ELSE 0)
            /\ Bit(control, 2) = (IF call.status = "Enabled" THEN 1 ELSE 0)
            /\ ~ (Bit(control, 7) = 1 /\ Bit(control, 2) = 1)
            /\ control % 4 =
                  (IF call.mode = "Teleop" THEN 0
                   ELSE IF call.mode = "Autonomous" THEN 2
                   ELSE 1)

\* build has made the control byte of an e-stopped session in autonomous mode
C6_Witness ==
    /\ call.fn = "build"
    /\ call.status = "EStopped"
    /\ call.mode = "Autonomous"
    /\ call.ret.val.control = 130

\* the datagram's status and trace bytes hold only declared flags
ValidFlags(b) ==
    /\ Len(b) >= 5
    /\ ~ from_bits(Status_all, b[4]).panic
    /\ ~ from_bits(Trace_all, b[5]).panic

\* the packet the 8 header bytes of b describe
HeaderPacket(b) ==
    UdpIncomingPacket(b[1] * 256 + b[2], b[4], b[5], b[6] + b[7], b[8] = 1)

\* C7: a buffer of 8 bytes or fewer yields no datagram; a buffer of exactly 9
\* bytes with valid status and trace bytes yields exactly one datagram with
\* the header fields and then ends, without failing.
C7_HeaderOnlyBoundary ==
    stream.last # "new" =>
        /\ Len(stream.buf) <= 8 =>
              stream.last = "None" /\ stream.yielded = <<>>
        /\ (Len(stream.buf) = 9 /\ ValidFlags(stream.buf)) =>
              /\ stream.last # "panic"
              /\ stream.yielded = <<HeaderPacket(stream.buf)>>

\* Walking the tag blocks of b from the length byte at index i (from 1), each
\* block a length byte L, an id byte and L - 1 payload bytes: some block
\* declares more bytes than are left
RECURSIVE TagOverruns(_, _)
TagOverruns(b, i) ==
    IF i > Len(b) \/ b[i] = 0 THEN FALSE
    ELSE IF i + b[i] > Len(b) THEN TRUE
    ELSE TagOverruns(b, i + b[i] + 1)

\* C8: when a tag block declares a length that exceeds the bytes remaining,
\* next ends the stream: no datagram, no partial record, no failure.
C8_OverrunEndsStream ==
    (/\ stream.last # "new"
     /\ Len(stream.buf) >= 10
     /\ ValidFlags(stream.buf)
     /\ TagOverruns(stream.buf, 9)) =>
        stream.last = "None" /\ stream.yielded = <<>>

\* the blocks from index i on are well formed and fill b exactly
RECURSIVE TagsFill(_, _)
TagsFill(b, i) ==
    IF i = Len(b) + 1 THEN TRUE
    ELSE /\ i <= Len(b)
         /\ b[i] >= 1
         /\ i + b[i] <= Len(b)
         /\ TagsFill(b, i + b[i] + 1)

\* C9: a valid header followed by one or more well-formed tag blocks that
\* fill the buffer yields exactly one datagram, with the header's values,
\* and the cursor has passed every block.
C9_TagsSkippedByLength ==
    (/\ stream.last # "new"
     /\ Len(stream.buf) >= 10
     /\ ValidFlags(stream.buf)
     /\ TagsFill(stream.buf, 9)) =>
        /\ stream.last # "panic"
        /\ stream.yielded = <<HeaderPacket(stream.buf)>>
        /\ stream.pos = Len(stream.buf)

\* the first tag block of b is a CAN-metrics tag with its utilization field
\* and the 10 bytes after it
HasCanMetrics(b) ==
    /\ Len(b) >= 24
    /\ ValidFlags(b)
    /\ b[9] = 15
    /\ b[10] = 14

\* C10: after a status datagram with a CAN-metrics tag of utilization u has
\* been processed, can_bus_util is u and no other session field has changed.
C10_CanUtilStored ==
    (stream.last # "new" /\ HasCanMetrics(stream.buf)) =>
        ds = [Ds_init EXCEPT !.can_bus_util =
                 u32_from_be_bytes(stream.buf[11], stream.buf[12],
                                   stream.buf[13], stream.buf[14])]

\* ---- incoming TCP frames

\* the frame that starts at index i of b: its length field, id and payload
FrameLen(b, i) == u16_from_be_bytes(at(b, i), at(b, i + 1))
FrameId(b, i) == at(b, i + 2)
FramePayload(b, i) == slice(b, i + 3, i + 2 + FrameLen(b, i))

RecognizedIds == {0, 1, 4, 5, 10, 11, 12, 13}

\* index i of b starts a complete frame with a recognized id whose payload,
\* taken alone, is a record of that id
WellFormedFrame(b, i) ==
    /\ InBounds(b, i + 2)
    /\ FrameLen(b, i) >= 1
    /\ i + 2 + FrameLen(b, i) <= Len(b)
    /\ FrameId(b, i) \in RecognizedIds
    /\ ~ tcp_arm(FrameId(b, i), FrameLen(b, i), FramePayload(b, i)).panic

\* b from index i on is k >= 0 well-formed frames and nothing else
RECURSIVE WellFramed(_, _)
WellFramed(b, i) ==
    \/ i = Len(b)
    \/ /\ WellFormedFrame(b, i)
       /\ WellFramed(b, i + 2 + FrameLen(b, i))

\* where frame number n (from 1) of a well-framed b starts, scanning from i
RECURSIVE FrameStart(_, _, _)
FrameStart(b, i, n) ==
    IF n = 1 THEN i ELSE FrameStart(b, i + 2 + FrameLen(b, i), n - 1)

RECURSIVE FrameCount(_, _)
FrameCount(b, i) ==
    IF i >= Len(b) THEN 0 ELSE 1 + FrameCount(b, i + 2 + FrameLen(b, i))

\* C11: over a buffer of k >= 1 well-formed frames with recognized ids,
\* next never fails, the i-th record yielded is the record of the i-th
\* frame's payload, after yielding i records the cursor is at the start of
\* frame i + 1, and when the stream has returned None it has yielded
\* exactly k records.
C11_FramesInOrder ==
    (Len(stream.buf) > 0 /\ WellFramed(stream.buf, 0)) =>
        /\ stream.last # "panic"
        /\ Len(stream.yielded) <= FrameCount(stream.buf, 0)
        /\ \A i \in 1..Len(stream.yielded) :
              LET at_i == FrameStart(stream.buf, 0, i)
              IN  stream.yielded[i] =
                      tcp_arm(FrameId(stream.buf, at_i), FrameLen(stream.buf, at_i),
                              FramePayload(stream.buf, at_i)).val
        /\ stream.last = "Some" =>
              stream.pos = FrameStart(stream.buf, 0, Len(stream.yielded) + 1)
        /\ stream.last = "None" => Len(stream.yielded) = FrameCount(stream.buf, 0)

\* b holds the two length bytes of a first frame of length L > 0 and ends
\* before the id or before the L - 1 payload bytes
FirstFrameCut(b) ==
    /\ InBounds(b, 1)
    /\ FrameLen(b, 0) > 0
    /\ Len(b) < 2 + FrameLen(b, 0)

\* C12: when the buffer ends in the middle of its first frame, every call
\* of next returns None: none fails and none yields a record.
C12_CutFrameStopsCleanly ==
    (FirstFrameCut(stream.buf) /\ stream.last # "new") =>
        (stream.last = "None" /\ stream.yielded = <<>>)

\* b is one complete frame with the given id
SingleFrame(b, id) ==
    /\ InBounds(b, 2)
    /\ FrameLen(b, 0) >= 1
    /\ Len(b) = 2 + FrameLen(b, 0)
    /\ FrameId(b, 0) = id

\* C13: a radio-event frame or a stdout frame whose text is not valid UTF-8
\* is yielded as a record with the empty string for its text, the stdout
\* record with its timestamp and sequence number as sent.
C13_InvalidTextIsEmpty ==
    LET b == stream.buf
    IN  /\ (stream.last # "new" /\ SingleFrame(b, 0) /\ from_utf8(slice_from(b, 3)).panic) =>
              /\ Len(stream.yielded) >= 1
              /\ stream.yielded[1] = [tag |-> "RadioEvent", message |-> <<>>]
        /\ (stream.last # "new" /\ SingleFrame(b, 12) /\ InBounds(b, 8)
                /\ from_utf8(slice_from(b, 9)).panic) =>
              /\ Len(stream.yielded) >= 1
              /\ stream.yielded[1] =
                    [tag |-> "Stdout",
                     timestamp |-> u32_from_be_bytes(at(b, 3), at(b, 4), at(b, 5), at(b, 6)),
                     seqnum |-> u16_from_be_bytes(at(b, 7), at(b, 8)),
                     message |-> <<>>]

\* C19: a call of next that reads a frame length of zero returns None, and
\* once a call has read a zero length no call yields a record.
C19_ZeroLengthEnds ==
    [][/\ reads_zero_length(stream) => (stream'.last = "None"
                                        /\ stream'.yielded = stream.yielded)
       /\ stream.ended => stream'.yielded = stream.yielded]_vars

\* ---- find_status, mode bits

\* C14: for a status byte with both the auto bit and the test bit set, with
\* any trace byte, find_status fails.
C14_BothModeBitsFail ==
    (call.fn = "find_status" /\ Bit(call.status, 0) = 1 /\ Bit(call.status, 1) = 1) =>
        call.ret.panic

\* ---- outgoing joystick tag

\* the byte the tag is to carry for buttons 8j+1 .. 8j+8: button i of the
\* group (i = 0..7) is bit 7 - i
RECURSIVE MsbFirst(_, _, _)
MsbFirst(buttons, j, i) ==
    IF i > 7 THEN 0
    ELSE (IF buttons[8 * j + i + 1] THEN 2 ^ (7 - i) ELSE 0) + MsbFirst(buttons, j, i + 1)

\* C15: the joystick tag written for a button list holds, between the button
\* count byte and the pov count byte, one byte per complete group of 8
\* buttons, with button i of the group in bit 7 - i, and no byte for a
\* trailing group of 1 to 7 buttons.
C15_ButtonsMsbFirst ==
    (call.fn = "tag_write" /\ call.tag.kind = "Joystick") =>
        LET tag == call.tag
            groups == Len(tag.buttons) \div 8
            first == 1 + Len(tag.axes) + 1
        IN  /\ Len(call.ret.val) = first + groups + 1 + 2 * Len(tag.povs)
            /\ \A j \in 0..(groups - 1) :
                  call.ret.val[first + j + 1] = MsbFirst(tag.buttons, j, 0)

\* ---- the receive loop

\* C16: an iteration of the UDP branch with a datagram of at least 9 bytes
\* with valid flag bytes pending hands the bytes of that datagram to
\* UdpIncomingStream, and ends with lifecycle_state, operating_mode and
\* battery_voltage as derived from the datagram's header.
C16_DatagramParsed ==
    [][\A r \in RunTasks, d \in PeerDatagrams :
          (RunUdp(r, d) /\ Len(d) >= 9 /\ ValidFlags(d)) =>
              /\ stream'.buf = d
              /\ ds'.status = find_status(at(d, 3), at(d, 4)).val.status
              /\ ds'.mode = find_status(at(d, 3), at(d, 4)).val.mode
              /\ ds'.battery = at(d, 5) + at(d, 6)]_vars

\* C17: a getter can be called by an idle caller whatever locks are held and
\* wherever the other tasks are; the call is one step that returns the value
\* the field holds in that step and changes neither the session nor a lock.
C17_GettersLockFree ==
    [][/\ \A t \in CmdTasks, g \in Getters :
             (pc[t] = "idle" /\ call = NoCall) => ENABLED Get(t, g)
       /\ \A t \in CmdTasks :
             (pc[t] = "idle" /\ pc'[t] = "got") =>
                 /\ call'.fn \in Getters
                 /\ call'.ret = ds[call'.fn]
                 /\ ds' = ds
                 /\ locks' = locks]_vars

\* status() has returned Enabled to one caller while a run() holds both
\* read-side locks inside its loop and another caller holds the send lock
C17_Witness ==
    /\ call.fn = "status"
    /\ call.ret = "Enabled"
    /\ \E t \in CmdTasks : pc[t] = "got" /\ cmd[t] = "status"
    /\ \E r \in RunTasks :
          pc[r] = "select" /\ locks.rio_incoming_udp = r /\ locks.rio_tcp_rx = r
    /\ \E u \in CmdTasks : locks.rio_outgoing_udp = u /\ pc[u] = "send"

\* C18 as stated: a run() that holds a read-side lock holds it in every
\* later state.
C18_LocksNeverReleased ==
    [][\A r \in RunTasks :
          /\ locks.rio_incoming_udp = r => locks'.rio_incoming_udp = r
          /\ locks.rio_tcp_rx = r => locks'.rio_tcp_rx = r]_vars

\* at most one run() is inside the loop, it holds both read-side locks, and
\* the TCP-read lock is held only by the holder of the UDP-receive lock
OneReceiveLoop(p, l) ==
    /\ Cardinality({r \in RunTasks : p[r] = "select"}) <= 1
    /\ \A r \in RunTasks :
          /\ p[r] = "select" => (l.rio_incoming_udp = r /\ l.rio_tcp_rx = r)
          /\ l.rio_tcp_rx = r => l.rio_incoming_udp = r

\* C18 as amended: run() takes the UDP-receive lock, then the TCP-read lock,
\* then enters its loop; at most one run() is inside the loop and it holds
\* both locks; only the run() inside the loop reads from a socket; a run()
\* gives up its locks only by panicking, and only then can another run()
\* enter the loop.
C18_OneReceiveLoop ==
    [][/\ OneReceiveLoop(pc, locks)
       /\ OneReceiveLoop(pc', locks')
       /\ net' # net =>
             \E r \in RunTasks :
                 pc[r] = "select" /\ locks.rio_incoming_udp = r /\ locks.rio_tcp_rx = r
       /\ \A r \in RunTasks :
             /\ (locks.rio_incoming_udp = r /\ locks'.rio_incoming_udp # r) =>
                    pc'[r] = "panicked"
             /\ (locks.rio_tcp_rx = r /\ locks'.rio_tcp_rx # r) => pc'[r] = "panicked"]_vars

\* the first run() has panicked and the second one, which found the locks
\* taken, is inside the loop and has read from the TCP socket
C18_Witness ==
    /\ \E r \in RunTasks : pc[r] = "panicked"
    /\ \E r \in RunTasks :
          /\ pc[r] = "select"
          /\ locks.rio_incoming_udp = r
          /\ locks.rio_tcp_rx = r
    /\ net.tcp # <<>>
    /\ \E t \in CmdTasks : pc[t] = "lock"

\* C20: over a buffer whose first frame is a rail-faults frame (length 7, id
\* 0x05, then a, b, c as big-endian u16), the first call of next yields a
\* RailFaults record with 6V = a, 5V = b, 3.3V = c; the match of the TCP
\* branch reports exactly one event for that record, of level ERROR, and the
\* session's fields stay as they were.
C20_RailFaultsReported ==
    LET b == stream.buf
    IN  (Len(b) >= 9 /\ SubSeq(b, 1, 3) = <<0, 7, 5>> /\ stream.last # "new") =>
            /\ Len(stream.yielded) >= 1
            /\ stream.yielded[1] =
                  [tag |-> "RailFaults",
                   pwr6v |-> b[4] * 256 + b[5],
                   pwr5v |-> b[6] * 256 + b[7],
                   pwr3_3v |-> b[8] * 256 + b[9]]
            /\ Cardinality({i \in 1..Len(net.events) : net.events[i].of = 1}) = 1
            /\ \A i \in 1..Len(net.events) :
                  net.events[i].of = 1 =>
                      /\ net.events[i].level = "ERROR"
                      /\ net.events[i].record = stream.yielded[1]
            /\ ds = Ds_init

\* the rail-faults frame with 6V = 10, 5V = 20, 3.3V = 30 has been yielded
\* and reported
C20_Witness ==
    /\ stream.buf = RailFrame(10, 20, 30)
    /\ Len(stream.yielded) >= 1
    /\ stream.yielded[1] =
          [tag |-> "RailFaults", pwr6v |-> 10, pwr5v |-> 20, pwr3_3v |-> 30]
    /\ Len(net.events) >= 1
    /\ net.events[1].level = "ERROR"

\* ---- requests, sequence number, alliance

\* the request byte (5th byte) of the packet p that command c sends
RequestByteOf(c, p) ==
    /\ ~ write(p).panic
    /\ write(p).val[5] =
          (IF c = "reboot_rio" THEN Request_REBOOT_RIO
           ELSE IF c = "restart_code" THEN Request_RESTART_CODE
           ELSE 0)
    /\ BitAnd(write(p).val[5], BitOr(Request_REBOOT_RIO, Request_RESTART_CODE))
          # BitOr(Request_REBOOT_RIO, Request_RESTART_CODE)

\* C21: the packet reboot_rio() sends has request byte REBOOT_RIO alone, the
\* packet restart_code() sends has RESTART_CODE alone, the packet of enable(),
\* disable() or estop() has request byte 0 whatever calls came before, no
\* packet has both bits, and no step of a reboot_rio() or restart_code() call
\* changes a field of the session.
C21_RequestOneShot ==
    [][/\ \A t \in CmdTasks :
             /\ pc[t] = "send" => RequestByteOf(cmd[t], pkt[t])
             /\ pc'[t] = "send" => RequestByteOf(cmd'[t], pkt'[t])
       /\ \A t \in CmdTasks :
             (/\ pc'[t] # pc[t]
              /\ \/ cmd[t] \in Commands \ StoringCommands
                 \/ cmd'[t] \in Commands \ StoringCommands) => ds' = ds]_vars

\* enable() is sending its packet, with request byte 0, while restart_code()
\* waits for the lock with the packet it built, which asks for the restart
\* alone
C21_Witness ==
    \E t, u \in CmdTasks :
        /\ pc[t] = "send" /\ cmd[t] = "enable"
        /\ write(pkt[t]).val[5] = 0
        /\ pc[u] = "lock" /\ cmd[u] = "restart_code"
        /\ write(pkt[u]).val[5] = Request_RESTART_CODE
        /\ ds.status = "Enabled"

\* C24: the packet a command call transmits has sequence number 0 in its
\* first two bytes, whatever calls were made before it.
C24_SeqnumZero ==
    \A t \in CmdTasks :
        pc[t] = "send" =>
            /\ ~ write(pkt[t]).panic
            /\ SubSeq(write(pkt[t]).val, 1, 2) = <<0, 0>>

\* reboot_rio() is sending its packet, numbered 0, after an estop() call has
\* stored EStopped and returned; no other call is under way
C24_Witness ==
    \E t \in CmdTasks :
        /\ pc[t] = "send" /\ cmd[t] = "reboot_rio"
        /\ ds.status = "EStopped"
        /\ \A u \in CmdTasks \ {t} : pc[u] = "idle"
        /\ SubSeq(write(pkt[t]).val, 1, 2) = <<0, 0>>

\* the lifecycle states find_status can return
StatusesFound ==
    {find_status(st, tr).val.status :
        <<st, tr>> \in {x \in StatusValues \X TraceValues :
                          ~ find_status(x[1], x[2]).panic}}

\* C25: once ds.status holds a value other than NoCommunication no step
\* stores NoCommunication again: enable, disable and estop store other
\* states, find_status returns it for no status and trace byte, and no other
\* step writes the field.
C25_NoCommunicationOnlyInitial ==
    [][/\ ds.status # "NoCommunication" => ds'.status # "NoCommunication"
       /\ ds'.status # ds.status =>
             \E t \in CmdTasks :
                 /\ pc[t] = "idle" /\ pc'[t] = "lock"
                 /\ cmd'[t] \in {"enable", "disable", "estop"}
       /\ "NoCommunication" \notin StatusesFound]_vars

\* the lifecycle state is Disabled, every command call has returned, and the
\* run() inside the loop has taken a datagram since
C25_Witness ==
    /\ ds.status = "Disabled"
    /\ \A t \in CmdTasks : pc[t] = "idle"
    /\ \E r \in RunTasks : pc[r] = "select"
    /\ net.udp # <<>>

\* C26: ds.alliance_pos is Red(1) in every state, and the packet a command
\* call transmits is six bytes long, its sixth byte 0, with no tag after it.
C26_AllianceNeverWritten ==
    /\ ds.alliance_pos = AlliancePos("Red", 1)
    /\ \A t \in CmdTasks :
          pc[t] = "send" =>
              /\ pkt[t].alliance = AlliancePos("Red", 1)
              /\ pkt[t].tags = <<>>
              /\ ~ write(pkt[t]).panic
              /\ Len(write(pkt[t]).val) = 6
              /\ write(pkt[t]).val[6] = 0

\* estop() is sending the six bytes 0, 0, 1, 0x80, 0, 0
C26_Witness ==
    \E t \in CmdTasks :
        /\ pc[t] = "send" /\ cmd[t] = "estop"
        /\ write(pkt[t]).val = <<0, 0, 1, 128, 0, 0>>

\* ---- command calls and the send lock

\* a command call of task t is under way
InCall(t) == pc[t] \in {"lock", "build", "send"}

\* C22: a command call holds the UDP-send lock exactly between its
\* lock().await and its return, and touches no other lock; under fair
\* scheduling, with sends that complete, every call that has started returns,
\* whatever run() holds.
C22_CommandsComplete ==
    /\ [](\A t \in CmdTasks :
             /\ locks.rio_outgoing_udp = t <=> pc[t] \in {"build", "send"}
             /\ locks.rio_incoming_udp # t
             /\ locks.rio_tcp_rx # t
             /\ locks.rio_tcp_tx # t)
    /\ \A t \in CmdTasks : InCall(t) ~> (pc[t] = "idle")

\* one call holds the send lock and is sending while another waits for it,
\* and a run() inside its loop holds both read-side locks
C22_Witness ==
    /\ \E t, u \in CmdTasks :
          /\ pc[t] = "send" /\ locks.rio_outgoing_udp = t
          /\ pc[u] = "lock"
    /\ \E r \in RunTasks :
          pc[r] = "select" /\ locks.rio_incoming_udp = r /\ locks.rio_tcp_rx = r

\* ---- version info, joystick button count

\* C23: for a payload of type byte, two reserved bytes, device-id byte,
\* name-length byte n, n name bytes, version-length byte v, v version bytes,
\* VersionInfo::parse returns the type byte, the device id, the n name bytes
\* and the v version bytes.
C23_VersionInfoFields ==
    call.fn = "VersionInfo_parse" =>
        LET b == call.buf
            n == b[5]
            v == b[6 + n]
        IN  /\ ~ call.ret.panic
            /\ call.ret.val.ty = b[1]
            /\ call.ret.val.id = b[4]
            /\ call.ret.val.name = SubSeq(b, 6, 5 + n)
            /\ call.ret.val.version = SubSeq(b, 7 + n, 6 + n + v)

\* the number of packed button bytes between the button-count byte and the
\* POV count of a written joystick tag
ButtonBytes(tag, out) == Len(out) - (1 + Len(tag.axes)) - 1 - (1 + 2 * Len(tag.povs))

\* C27: in a written joystick tag, the byte after the axes is the number of
\* packed button bytes that follow it, before the POV count.
C27_ButtonCountMatches ==
    (call.fn = "tag_write" /\ call.tag.kind = "Joystick") =>
        LET out == call.ret.val
        IN  out[2 + Len(call.tag.axes)] = ButtonBytes(call.tag, out)

====
